---------------------------- MODULE Spec2Model ----------------------------
(***************************************************************************)
(* State-machine model of src/main.py (nike-monitor): one run of main():   *)
(* fetch NKE, fetch 9910.TW, correlate, render the chart, compose the      *)
(* Discord embed and post it.                                              *)
(*                                                                         *)
(* Representation.                                                         *)
(*   - A calendar date is its proleptic Gregorian ordinal (an integer), as *)
(*     date.toordinal() gives it; date + timedelta(days=n) is + n.         *)
(*   - A price is an integer number of 1/Scale currency units, a           *)
(*     correlation an integer number of 1/Scale, rounded away from zero so *)
(*     that every comparison with 0.7, 0.3 and -0.3 has the outcome the    *)
(*     exact value has.  A percentage is in 1/Scale percent.               *)
(*   - A Python value that may be None or NaN is a record tagged by "is".  *)
(*   - A DataFrame is its index (time zone and days) and its Close column; *)
(*     CloseIndex is the index of the column Series that hist['Close']     *)
(*     hands out.                                                          *)
(***************************************************************************)
EXTENDS Integers, Sequences, FiniteSets, TLC

\* ------------------------------------------------------------ constants
Scale == 100                 \* two decimals, the ".2f" of format_number
MinPoints == 10              \* if len(df) < 10
Window == 30                 \* df.tail(30)
QuarterDays == 91            \* timedelta(days=91)
SecondsPerDay == 24 * 60 * 60
FracScale == Scale * Scale   \* unit of a reported yield fraction (1/10000)

\* ------------------------------------------------------------ bounds
MaxLen == 31                 \* longest price history the data source returns
MaxBack == 200               \* how far before today a source date may lie
MaxAhead == 2                \* how far after today a source date may lie

\* ------------------------------------------------------------ values
None == [is |-> "None"]
NaN == [is |-> "nan"]
Num(v) == [is |-> "num", v |-> v]
Date(d) == [is |-> "date", ord |-> d]
DateTime(d, s) == [is |-> "datetime", ord |-> d, sec |-> s]

Abs(x) == IF x < 0 THEN -x ELSE x

\* a / b rounded to the nearest integer, b > 0
RoundDiv(a, b) ==
    IF a >= 0 THEN (2 * a + b) \div (2 * b) ELSE -((2 * (-a) + b) \div (2 * b))

\* ------------------------------------------------------------ calendar
IsLeap(y) == (y % 4 = 0) /\ ((y % 100 # 0) \/ (y % 400 = 0))

DaysBeforeYear(y) ==
    LET p == y - 1 IN p * 365 + p \div 4 - p \div 100 + p \div 400

DaysInMonth(y, m) ==
    IF m = 2 THEN (IF IsLeap(y) THEN 29 ELSE 28)
    ELSE IF m \in {4, 6, 9, 11} THEN 30 ELSE 31

RECURSIVE DaysBeforeMonth(_, _)
DaysBeforeMonth(y, m) ==
    IF m = 1 THEN 0 ELSE DaysBeforeMonth(y, m - 1) + DaysInMonth(y, m - 1)

\* date(y, m, d).toordinal()
Ordinal(y, m, d) == DaysBeforeYear(y) + DaysBeforeMonth(y, m) + d

EpochOrdinal == Ordinal(1970, 1, 1)

\* datetime.fromtimestamp(ts).date() in a zone off seconds east of UTC
fromtimestamp(ts, off) == Date(EpochOrdinal + ((ts + off) \div SecondsPerDay))

\* the POSIX timestamp of s seconds after midnight UTC of day d
Timestamp(d, s) == (d - EpochOrdinal) * SecondsPerDay + s


\* ------------------------------------------------------------ data source
TICKERS == [US |-> "NKE", TW |-> "9910.TW"]
ExchangeTz == [US |-> "America/New_York", TW |-> "Asia/Taipei"]
Naive == "naive"

FirstDay == Ordinal(2024, 1, 1)

\* day-to-day movement of a close, in 1/Scale currency units above the base
Pattern(shape, i, n) ==
    CASE shape = "flat" -> 0
      [] shape = "rise" -> IF 2 * i > n THEN 1 ELSE 0
      [] shape = "fall" -> IF 2 * i > n THEN 0 ELSE 1
      [] shape = "zig"  -> i % 2

BasePrice == [US |-> 75 * Scale, TW |-> 150 * Scale]

\* what stock.history(period="6mo") returns: n daily rows from day FirstDay +
\* start + 1 on, with a DatetimeIndex in time zone tz
MkHist(t, n, start, shape, tz) ==
    LET idx == [tz |-> tz, days |-> [i \in 1..n |-> FirstDay + start + i]]
    IN  [index |-> idx,
         Close |-> [i \in 1..n |-> BasePrice[t] + Pattern(shape, i, n)],
         CloseIndex |-> idx]

HistChoices(t) ==
    IF t = "US"
    THEN {MkHist(t, n, 0, sh, tz) :
            n \in {1, MinPoints, MaxLen}, sh \in {"flat", "rise"},
            tz \in {ExchangeTz[t], Naive}}
    ELSE {MkHist(t, p[1], p[2], sh, tz) :
            p \in {<<0, 0>>, <<MinPoints - 1, 0>>, <<MinPoints, 0>>,
                   <<MinPoints, 1>>, <<MaxLen, 0>>},
            sh \in {"flat", "rise", "fall", "zig"},
            tz \in {ExchangeTz[t]}}

\* ------------------------------------------------------------ get_stock_data
\* stock.calendar: a dict that may hold 'Earnings Date', a DataFrame, or a
\* failure; dates are the values under 'Earnings Date' (dict) or the cells of the
\* first row (DataFrame)
Calendar(kind, dates) == [kind |-> kind, dates |-> dates]

\* lines 33-41: the first calendar date, None when there is none or the lookup
\* raises (an empty list raises IndexError, which the bare except swallows)
CalendarEarningsDate(cal) ==
    IF cal.kind = "dict" /\ Len(cal.dates) > 0 THEN cal.dates[1]
    ELSE IF cal.kind = "frame" /\ Len(cal.dates) > 0 THEN cal.dates[1]
    ELSE None

\* ------------------------------------------------------------ calculate_correlation
\* index.tz_localize(None).normalize(): the same days, no time zone
StripTz(idx) == [tz |-> Naive, days |-> idx.days]

RECURSIVE AlignFrom(_, _, _, _, _)
\* rows i.. of the inner join of (ud, uc) and (td, tc) on the day
AlignFrom(i, ud, uc, td, tc) ==
    IF i > Len(ud) THEN << >>
    ELSE LET J == {j \in 1..Len(td) : td[j] = ud[i]}
         IN  IF J = {} THEN AlignFrom(i + 1, ud, uc, td, tc)
             ELSE LET j == CHOOSE k \in J : TRUE
                  IN  <<[day |-> ud[i], US |-> uc[i], TW |-> tc[j]]>>
                        \o AlignFrom(i + 1, ud, uc, td, tc)

\* pd.concat([us_close, tw_close], axis=1, keys=['US','TW'], sort=True).dropna():
\* indexes of different time zones share no label
Concat(usIdx, usClose, twIdx, twClose) ==
    IF usIdx.tz # twIdx.tz THEN << >>
    ELSE AlignFrom(1, usIdx.days, usClose, twIdx.days, twClose)

\* df.tail(k)
tail(df, k) == IF Len(df) <= k THEN df ELSE SubSeq(df, Len(df) - k + 1, Len(df))

RECURSIVE Sum(_, _)
Sum(f, n) == IF n = 0 THEN 0 ELSE f[n] + Sum(f, n - 1)

\* the least q in 0..Scale with q/Scale >= |cov| / sqrt(vx * vy)
CeilRatio(cov, vx, vy) ==
    CHOOSE q \in 0..Scale :
        /\ q * q * (vx * vy) >= Scale * Scale * (cov * cov)
        /\ \A p \in 0..(q - 1) : p * p * (vx * vy) < Scale * Scale * (cov * cov)

\* df.corr().iloc[0, 1]: Pearson's r of the two columns, NaN when either has no
\* variance (0/0 in floating point: no exception)
corr(df) ==
    LET n  == Len(df)
        x  == [i \in 1..n |-> df[i].US - df[1].US]
        y  == [i \in 1..n |-> df[i].TW - df[1].TW]
        sx == Sum(x, n)
        sy == Sum(y, n)
        vx == n * Sum([i \in 1..n |-> x[i] * x[i]], n) - sx * sx
        vy == n * Sum([i \in 1..n |-> y[i] * y[i]], n) - sy * sy
        cv == n * Sum([i \in 1..n |-> x[i] * y[i]], n) - sx * sy
    IN  IF vx = 0 \/ vy = 0 THEN NaN
        ELSE IF cv >= 0 THEN Num(CeilRatio(cv, vx, vy))
        ELSE Num(-CeilRatio(cv, vx, vy))

\* lines 56-62, given the two stripped Close series
calculate_correlation(usIdx, usClose, twIdx, twClose) ==
    LET df == Concat(usIdx, usClose, twIdx, twClose)
    IN  IF Len(df) < MinPoints THEN Num(0) ELSE corr(tail(df, Window))

\* ------------------------------------------------------------ format_number
Digits2(k) == IF k < 10 THEN "0" \o ToString(k) ELSE ToString(k)

\* f"{num:.2f}" of a number given in 1/Scale
Fixed2(v) ==
    (IF v < 0 THEN "-" ELSE "") \o ToString(Abs(v) \div Scale) \o "."
        \o Digits2(Abs(v) % Scale)

format_number(num) ==
    IF num = None THEN "N/A"
    ELSE IF num = NaN THEN "nan"
    ELSE Fixed2(num.v)

\* ------------------------------------------------------------ correlation text
\* variant: the strong bucket taken with >= instead of >
corr_text_of_inclusive(c) ==
    IF c = NaN THEN "insufficient data"
    ELSE IF 10 * c.v >= 7 * Scale THEN "strongly positively correlated"
    ELSE IF 10 * c.v > 3 * Scale THEN "moderately positively correlated"
    ELSE IF 10 * c.v < -3 * Scale THEN "negatively correlated"
    ELSE "weak/no correlation"

\* lines 156-160
corr_text_of(c) ==
    IF c = NaN THEN "insufficient data"
    ELSE IF 10 * c.v > 7 * Scale THEN "strongly positively correlated"
    ELSE IF 10 * c.v > 3 * Scale THEN "moderately positively correlated"
    ELSE IF 10 * c.v < -3 * Scale THEN "negatively correlated"
    ELSE "weak/no correlation"

\* ------------------------------------------------------------ yield
\* Python truthiness of an optional number
Truthy(x) == x # None /\ x.v # 0

\* lines 145-153, in 1/Scale percent; close is the TW Close column
tw_yield_of(tw, close) ==
    IF Truthy(tw.dividendRate) /\ Len(close) = 0 THEN Num(0)   \* IndexError, except
    ELSE IF Truthy(tw.dividendRate) /\ close[Len(close)] # 0
         THEN Num(RoundDiv(tw.dividendRate.v * 100 * Scale, close[Len(close)]))
    ELSE IF Truthy(tw.dividendYield)
         THEN Num(RoundDiv(tw.dividendYield.v * 100 * Scale, FracScale))
    ELSE Num(0)


\* ------------------------------------------------------------ get_smart_earnings_date
Unknown == [is |-> "unknown"]

\* str(raw_date), or f"{estimated_next} (estimated)" when estimated
EarningsStr(d, estimated) == [is |-> "date", ord |-> d, estimated |-> estimated]

\* variant: the fundamentals timestamp tried before the calendar date
resolve_raw_date_timestamp_first(earnings_date_obj, info_dict, off) ==
    IF Truthy(info_dict.earningsTimestamp)
    THEN fromtimestamp(info_dict.earningsTimestamp.v, off)
    ELSE IF earnings_date_obj # None THEN Date(earnings_date_obj.ord)
    ELSE None

\* lines 102-110: the source date, None when there is none
resolve_raw_date(earnings_date_obj, info_dict, off) ==
    IF earnings_date_obj # None
    THEN Date(earnings_date_obj.ord)   \* .date() of a datetime, a date as it is
    ELSE IF Truthy(info_dict.earningsTimestamp)
         THEN fromtimestamp(info_dict.earningsTimestamp.v, off)
    ELSE None

\* ------------------------------------------------------------ state
VARIABLES
    pc,                   \* where the run is
    DISCORD_WEBHOOK_URL,  \* the module-level setting, "" when unset
    hist,                 \* nke_h, tw_h: the two DataFrames
    fetched,              \* what the data source returned for each ticker
    info,                 \* nke_i, tw_i
    earnings_date,        \* nke_e, tw_e
    correlation,          \* corr, data['correlation']
    chart,                \* "none", "png", or "failed"
    today, raw_date, estimated_next,   \* locals of get_smart_earnings_date
    earnings_str, tw_yield, corr_text, \* locals of send_discord_notification
    embed,                \* the embed's computed texts, None until built
    posts,                \* calls of requests.post
    response,             \* what the last post gave
    log                   \* what the run printed last, or the exception that ended it

vars == <<pc, DISCORD_WEBHOOK_URL, hist, fetched, info, earnings_date, correlation,
          chart, today, raw_date, estimated_next, earnings_str, tw_yield, corr_text,
          embed, posts, response, log>>

Tickers == {"US", "TW"}

NoHist == MkHist("US", 0, 0, "flat", Naive)
NoInfo == [earningsTimestamp |-> None, dividendRate |-> None, dividendYield |-> None]

Today0 == Ordinal(2024, 6, 1)
Todays == {Today0, Today0 + 1}
UtcOffsets == {0, 8 * 60 * 60}     \* the runner's zone: UTC, or Asia/Taipei

\* the fields of stock.info the run reads for each ticker
InfoChoices(t) ==
    IF t = "US"
    THEN {[NoInfo EXCEPT !.earningsTimestamp = ts] :
            ts \in {None, Num(0), Num(Timestamp(Today0 - QuarterDays - 1, 0))}}
    ELSE {[NoInfo EXCEPT !.dividendRate = r, !.dividendYield = y] :
            r \in {None, Num(0), Num(5 * Scale)}, y \in {None, Num(548)}}

CalendarChoices(t) ==
    IF t = "US"
    THEN {Calendar("raises", << >>), Calendar("dict", << >>),
          Calendar("dict", <<Date(Ordinal(2024, 1, 15))>>),
          Calendar("dict", <<Date(Today0 + 1), Date(Today0 + 2)>>),
          Calendar("frame", <<DateTime(Today0 - 1, 3600)>>)}
    ELSE {Calendar("raises", << >>)}

Init ==
    /\ pc = "fetch_US"
    /\ DISCORD_WEBHOOK_URL \in {"", "https://discord.com/api/webhooks/x"}
    /\ hist = [t \in Tickers |-> NoHist]
    /\ fetched = [t \in Tickers |-> NoHist]
    /\ info = [t \in Tickers |-> NoInfo]
    /\ earnings_date = [t \in Tickers |-> None]
    /\ correlation = None
    /\ chart = "none"
    /\ today = 0
    /\ raw_date = None
    /\ estimated_next = 0
    /\ earnings_str = None
    /\ tw_yield = None
    /\ corr_text = ""
    /\ embed = None
    /\ posts = 0
    /\ response = "none"
    /\ log = ""

earnVars == <<today, raw_date, estimated_next, earnings_str>>
sendVars == <<tw_yield, corr_text, embed, posts, response>>
dataVars == <<hist, fetched, info, earnings_date>>

\* ------------------------------------------------------------ main: fetch
\* get_stock_data(TICKERS[t]), lines 18-43 and 218-219
get_stock_data(t, next) ==
    /\ pc = "fetch_" \o t
    /\ \/ \E h \in HistChoices(t), i \in InfoChoices(t), cal \in CalendarChoices(t) :
            /\ hist' = [hist EXCEPT ![t] = h]
            /\ fetched' = [fetched EXCEPT ![t] = h]
            /\ info' = [info EXCEPT ![t] = i]
            /\ earnings_date' = [earnings_date EXCEPT ![t] = CalendarEarningsDate(cal)]
            /\ pc' = next
            /\ log' = "Fetching data for " \o TICKERS[t]
       \/ \* stock.history raises: nothing catches it
          /\ pc' = "aborted"
          /\ log' = "exception in get_stock_data"
          /\ UNCHANGED dataVars
    /\ UNCHANGED <<DISCORD_WEBHOOK_URL, correlation, chart, earnVars, sendVars>>

FetchUS == get_stock_data("US", "fetch_TW")
FetchTW == get_stock_data("TW", "correlate")

\* ------------------------------------------------------------ main: correlate
\* corr = calculate_correlation(nke_h, tw_h), lines 45-65 and 222.  Lines 53-54
\* assign the index of the Series hist['Close'] gave: with the frame's item cache
\* that Series is the one later hist['Close'] calls give too, with copy-on-write
\* it is not.  Any exception gives 0 as well (lines 63-65).
Correlate ==
    /\ pc = "correlate"
    /\ correlation' = calculate_correlation(
                         StripTz(hist["US"].CloseIndex), hist["US"].Close,
                         StripTz(hist["TW"].CloseIndex), hist["TW"].Close)
    /\ \E cached \in BOOLEAN :
         hist' = IF cached
                 THEN [t \in Tickers |->
                         [hist[t] EXCEPT !.CloseIndex = StripTz(hist[t].CloseIndex)]]
                 ELSE hist
    /\ pc' = "chart"
    /\ UNCHANGED <<DISCORD_WEBHOOK_URL, fetched, info, earnings_date, chart, earnVars,
                   sendVars, log>>

\* ------------------------------------------------------------ main: chart
\* hist.index = hist.index.tz_localize(None), lines 73-74: the frame's index is
\* replaced and its item cache cleared
StripFrame(h) == [h EXCEPT !.index = [tz |-> Naive, days |-> h.index.days],
                           !.CloseIndex = [tz |-> Naive, days |-> h.index.days]]

\* chart = generate_chart(nke_h, tw_h), lines 67-94 and 223: nothing catches what
\* it raises, before (lines 69-70) or after (lines 76-93) the index assignments
GenerateChart ==
    /\ pc = "chart"
    /\ \/ /\ hist' = [t \in Tickers |-> StripFrame(hist[t])]
          /\ chart' = "png"
          /\ pc' = "send"
          /\ UNCHANGED log
       \/ /\ hist' \in {hist, [t \in Tickers |-> StripFrame(hist[t])]}
          /\ chart' = "failed"
          /\ pc' = "aborted"
          /\ log' = "exception in generate_chart"
    /\ UNCHANGED <<DISCORD_WEBHOOK_URL, fetched, info, earnings_date, correlation,
                   earnVars, sendVars>>


\* ------------------------------------------------------------ send_discord_notification
\* lines 131-134: without a webhook the function prints an error and returns
SendStart ==
    /\ pc = "send"
    /\ IF DISCORD_WEBHOOK_URL = ""
       THEN pc' = "done" /\ log' = "Error: Discord Webhook URL not found."
       ELSE pc' = "earnings" /\ UNCHANGED log
    /\ UNCHANGED <<DISCORD_WEBHOOK_URL, dataVars, correlation, chart, earnVars, sendVars>>

\* variant: a source date equal to today taken as past (> instead of >=)
ResolveEarningsStrict ==
    /\ pc = "earnings"
    /\ \E td \in Todays, off \in UtcOffsets :
         LET raw == resolve_raw_date(earnings_date["US"], info["US"], off)
         IN  /\ today' = td
             /\ raw_date' = raw
             /\ IF raw = None
                THEN /\ earnings_str' = Unknown
                     /\ pc' = "yield"
                     /\ UNCHANGED estimated_next
                ELSE IF raw.ord > td
                THEN /\ earnings_str' = EarningsStr(raw.ord, FALSE)
                     /\ pc' = "yield"
                     /\ UNCHANGED estimated_next
                ELSE /\ estimated_next' = raw.ord + QuarterDays
                     /\ pc' = "roll"
                     /\ UNCHANGED earnings_str
    /\ UNCHANGED <<DISCORD_WEBHOOK_URL, dataVars, correlation, chart, sendVars, log>>

\* get_smart_earnings_date(data['earnings_date'], nke), lines 101-120: up to the
\* loop
ResolveEarnings ==
    /\ pc = "earnings"
    /\ \E td \in Todays, off \in UtcOffsets :
         LET raw == resolve_raw_date(earnings_date["US"], info["US"], off)
         IN  /\ today' = td
             /\ raw_date' = raw
             /\ IF raw = None
                THEN /\ earnings_str' = Unknown
                     /\ pc' = "yield"
                     /\ UNCHANGED estimated_next
                ELSE IF raw.ord >= td
                THEN /\ earnings_str' = EarningsStr(raw.ord, FALSE)
                     /\ pc' = "yield"
                     /\ UNCHANGED estimated_next
                ELSE /\ estimated_next' = raw.ord + QuarterDays
                     /\ pc' = "roll"
                     /\ UNCHANGED earnings_str
    /\ UNCHANGED <<DISCORD_WEBHOOK_URL, dataVars, correlation, chart, sendVars, log>>

\* variant: a quarter taken as 90 days inside the loop
RollStepNinety ==
    /\ pc = "roll"
    /\ estimated_next < today
    /\ estimated_next' = estimated_next + QuarterDays - 1
    /\ UNCHANGED <<pc, DISCORD_WEBHOOK_URL, dataVars, correlation, chart, today, raw_date,
                   earnings_str, sendVars, log>>

\* lines 122-123: one turn of the while loop
RollStep ==
    /\ pc = "roll"
    /\ estimated_next < today
    /\ estimated_next' = estimated_next + QuarterDays
    /\ UNCHANGED <<pc, DISCORD_WEBHOOK_URL, dataVars, correlation, chart, today, raw_date,
                   earnings_str, sendVars, log>>

\* line 124: the loop is left
RollExit ==
    /\ pc = "roll"
    /\ ~(estimated_next < today)
    /\ earnings_str' = EarningsStr(estimated_next, TRUE)
    /\ pc' = "yield"
    /\ UNCHANGED <<DISCORD_WEBHOOK_URL, dataVars, correlation, chart, today, raw_date,
                   estimated_next, sendVars, log>>

\* lines 144-153
Yield ==
    /\ pc = "yield"
    /\ tw_yield' = tw_yield_of(info["TW"], hist["TW"].Close)
    /\ pc' = "label"
    /\ UNCHANGED <<DISCORD_WEBHOOK_URL, dataVars, correlation, chart, earnVars, corr_text,
                   embed, posts, response, log>>

\* lines 155-160
Label ==
    /\ pc = "label"
    /\ corr_text' = corr_text_of(correlation)
    /\ pc' = "prices"
    /\ UNCHANGED <<DISCORD_WEBHOOK_URL, dataVars, correlation, chart, earnVars, tw_yield,
                   embed, posts, response, log>>

\* f"{pct:+.2f}" of (price - prev) / prev * 100
Change(close) ==
    LET price == close[Len(close)]
        prev  == close[Len(close) - 1]
        pct   == RoundDiv((price - prev) * 100 * Scale, prev)
    IN  (IF pct >= 0 THEN "+" ELSE "") \o Fixed2(pct)

\* lines 162-195: latest prices, changes and the embed; iloc[-2] raises IndexError
\* on a history of fewer than two rows, and nothing catches it
Compose ==
    /\ pc = "prices"
    /\ IF \E t \in Tickers : Len(hist[t].Close) < 2
       THEN /\ pc' = "aborted"
            /\ log' = "exception in send_discord_notification"
            /\ UNCHANGED embed
       ELSE /\ embed' =
                 [correlation |-> format_number(correlation),
                  corr_text   |-> corr_text,
                  nke_price   |-> format_number(Num(hist["US"].Close[Len(hist["US"].Close)])),
                  nke_pct     |-> Change(hist["US"].Close),
                  earnings    |-> earnings_str,
                  tw_price    |-> format_number(Num(hist["TW"].Close[Len(hist["TW"].Close)])),
                  tw_pct      |-> Change(hist["TW"].Close),
                  tw_yield    |-> format_number(tw_yield) \o "%",
                  image       |-> "attachment://chart.png"]
            /\ pc' = "post"
            /\ UNCHANGED log
    /\ UNCHANGED <<DISCORD_WEBHOOK_URL, dataVars, correlation, chart, earnVars, tw_yield,
                   corr_text, posts, response>>

StatusCodes == {200, 204, 400, 429}

\* variant: a rejected post is tried again, up to three times
PostRetrying ==
    /\ pc = "post"
    /\ posts < 3
    /\ posts' = posts + 1
    /\ \/ \E code \in StatusCodes :
            /\ response' = ToString(code)
            /\ IF code \in {200, 204}
               THEN pc' = "done" /\ log' = "Discord notification sent successfully."
               ELSE pc' = "post" /\ log' = "Failed to send: " \o ToString(code)
       \/ /\ response' = "ConnectionError"
          /\ pc' = "aborted"
          /\ log' = "exception in requests.post"
    /\ UNCHANGED <<DISCORD_WEBHOOK_URL, dataVars, correlation, chart, earnVars, tw_yield,
                   corr_text, embed>>

\* lines 197-212: one requests.post, whose failure to connect nothing catches;
\* the status is printed and the function returns
Post ==
    /\ pc = "post"
    /\ posts' = posts + 1
    /\ \/ \E code \in StatusCodes :
            /\ response' = ToString(code)
            /\ pc' = "done"
            /\ log' = IF code \in {200, 204}
                      THEN "Discord notification sent successfully."
                      ELSE "Failed to send: " \o ToString(code)
       \/ /\ response' = "ConnectionError"
          /\ pc' = "aborted"
          /\ log' = "exception in requests.post"
    /\ UNCHANGED <<DISCORD_WEBHOOK_URL, dataVars, correlation, chart, earnVars, tw_yield,
                   corr_text, embed>>

\* ------------------------------------------------------------ the run
Next ==
    \/ FetchUS
    \/ FetchTW
    \/ Correlate
    \/ GenerateChart
    \/ SendStart
    \/ ResolveEarnings
    \/ RollStep
    \/ RollExit
    \/ Yield
    \/ Label
    \/ Compose
    \/ Post

Spec == Init /\ [][Next]_vars

Terminated == pc \in {"done", "aborted"}


\* ------------------------------------------------------------ the estimator alone
\* A run that has fetched, correlated and charted two full rising histories and
\* stands before get_smart_earnings_date, for every calendar entry and earnings
\* timestamp within MaxBack days before and MaxAhead days after Today0.
Charted(t) == StripFrame(MkHist(t, MaxLen, 0, "rise", ExchangeTz[t]))

SourceDays == (Today0 - MaxBack)..(Today0 + MaxAhead)

EarningsDateChoices ==
    {None} \cup {Date(d) : d \in SourceDays} \cup {DateTime(d, 3600) : d \in SourceDays}

TimestampChoices ==
    {None, Num(0)} \cup
    {Num(Timestamp(d, s)) :
        d \in {Today0 - MaxBack, Today0 - QuarterDays, Today0 - 1, Today0, Today0 + MaxAhead},
        s \in {0, 20 * 60 * 60}}

Midway ==
    /\ DISCORD_WEBHOOK_URL = "https://discord.com/api/webhooks/x"
    /\ hist = [t \in Tickers |-> Charted(t)]
    /\ fetched = [t \in Tickers |-> MkHist(t, MaxLen, 0, "rise", ExchangeTz[t])]
    /\ chart = "png"
    /\ embed = None
    /\ posts = 0
    /\ response = "none"
    /\ log = "Fetching data for " \o TICKERS["TW"]

InitEarnings ==
    /\ Midway
    /\ pc = "earnings"
    /\ \E e \in EarningsDateChoices : earnings_date = [US |-> e, TW |-> None]
    /\ \E ts \in TimestampChoices :
         info = [US |-> [NoInfo EXCEPT !.earningsTimestamp = ts], TW |-> NoInfo]
    /\ correlation = Num(Scale)
    /\ today = 0
    /\ raw_date = None
    /\ estimated_next = 0
    /\ earnings_str = None
    /\ tw_yield = None
    /\ corr_text = ""

NextEarnings == ResolveEarnings \/ RollStep \/ RollExit

SpecEarnings == InitEarnings /\ [][NextEarnings]_vars

\* the loop is a sequential program: a step that can be taken is taken
FairSpecEarnings == SpecEarnings /\ WF_vars(NextEarnings)

\* ------------------------------------------------------------ the label alone
\* The same run standing before the correlation text, for every correlation
\* result: NaN and every number of [-1, 1] in 1/Scale.
CorrelationResults == {NaN} \cup {Num(v) : v \in (-Scale)..Scale}

InitLabel ==
    /\ Midway
    /\ pc = "label"
    /\ earnings_date = [t \in Tickers |-> None]
    /\ info = [t \in Tickers |-> NoInfo]
    /\ correlation \in CorrelationResults
    /\ today = Today0
    /\ raw_date = None
    /\ estimated_next = 0
    /\ earnings_str = Unknown
    /\ tw_yield = Num(0)
    /\ corr_text = ""

NextLabel == Label \/ Compose

SpecLabel == InitLabel /\ [][NextLabel]_vars


\* ============================================================ properties
\* the inner join of the two fetched Close series on the calendar day
Aligned ==
    Concat(StripTz(fetched["US"].index), fetched["US"].Close,
           StripTz(fetched["TW"].index), fetched["TW"].Close)

\* a column of the trailing window has no variance
Degenerate ==
    LET w == tail(Aligned, Window)
    IN  \/ \A i \in 1..Len(w) : w[i].US = w[1].US
        \/ \A i \in 1..Len(w) : w[i].TW = w[1].TW

\* C1: once the correlation is computed, fewer than 10 aligned points give a
\* sentinel that is no number (in particular not 0), and 10 or more points with
\* variance in both columns give a number.
C1_SentinelBelowTenPoints ==
    correlation # None =>
        /\ Len(Aligned) < MinPoints => correlation.is # "num"
        /\ (Len(Aligned) >= MinPoints /\ ~Degenerate) => correlation.is = "num"

\* the least k >= 1 with raw + 91 * k >= td
Quarters(raw, td) ==
    CHOOSE k \in 1..(MaxBack + MaxAhead + QuarterDays) :
        /\ raw + QuarterDays * k >= td
        /\ \A j \in 1..(k - 1) : raw + QuarterDays * j < td

\* C2: for a source date before today the roll-forward loop ends, and the
\* estimator returns raw + 91 * k for the least k >= 1 that reaches today, marked
\* estimated; no returned date lies before today.
C2_RollForward ==
    /\ [](/\ (pc = "yield" /\ raw_date # None /\ raw_date.ord < today) =>
                earnings_str =
                    EarningsStr(raw_date.ord
                                  + QuarterDays * Quarters(raw_date.ord, today), TRUE)
          /\ (pc = "yield" /\ earnings_str # Unknown) => earnings_str.ord >= today)
    /\ ((pc = "roll") ~> (pc = "yield"))

\* C2 witness: a source date more than one quarter old has been rolled twice
C2_Witness ==
    /\ pc = "yield"
    /\ raw_date = Date(Ordinal(2024, 1, 15))
    /\ today = Ordinal(2024, 6, 1)
    /\ earnings_str = EarningsStr(Ordinal(2024, 7, 15), TRUE)

\* C3: a source date on or after today (today included) is returned unchanged and
\* unmarked; the estimated marker is attached exactly when the source date is
\* before today.
C3_FuturePassthrough ==
    (pc = "yield" /\ raw_date # None) =>
        /\ raw_date.ord >= today => earnings_str = EarningsStr(raw_date.ord, FALSE)
        /\ earnings_str.estimated <=> raw_date.ord < today

\* C3 witness: a source date equal to today came back unmarked
C3_Witness ==
    /\ pc = "yield"
    /\ raw_date # None
    /\ raw_date.ord = today
    /\ earnings_str = EarningsStr(today, FALSE)

\* the label the table of ranges gives a correlation result
TableLabel(c) ==
    CHOOSE l \in {"strongly positively correlated", "moderately positively correlated",
                  "weak/no correlation", "negatively correlated", "insufficient data"} :
        /\ l = "insufficient data" <=> c = NaN
        /\ c # NaN =>
            /\ l = "strongly positively correlated" <=> 100 * c.v > 70 * Scale
            /\ l = "moderately positively correlated"
                  <=> (100 * c.v > 30 * Scale /\ 100 * c.v <= 70 * Scale)
            /\ l = "weak/no correlation"
                  <=> (100 * c.v >= -30 * Scale /\ 100 * c.v <= 30 * Scale)
            /\ l = "negatively correlated" <=> 100 * c.v < -30 * Scale

\* C4: the correlation text is the label of the table: above 0.7 strong, above
\* 0.3 up to 0.7 moderate, from -0.3 to 0.3 weak, below -0.3 negative, NaN
\* insufficient data; every result has exactly one label.
C4_StrengthLabel ==
    corr_text # "" =>
        /\ corr_text = TableLabel(correlation)
        /\ correlation = Num(70) => corr_text = "moderately positively correlated"
        /\ correlation \in {Num(30), Num(-30)} => corr_text = "weak/no correlation"
        /\ correlation = Num(-31) => corr_text = "negatively correlated"

\* C4 witness: exactly 0.7 was labelled moderate
C4_Witness ==
    /\ pc = "prices"
    /\ correlation = Num(70)
    /\ corr_text = "moderately positively correlated"

\* C5: in the composed report the yield is rate / price * 100 when a dividend
\* rate is there and the latest price is not zero, else the reported fraction *
\* 100 when that is there, else the "not available" marker and never 0%.
C5_YieldPriority ==
    embed # None =>
        LET tw    == info["TW"]
            close == fetched["TW"].Close
            price == close[Len(close)]
        IN  /\ (Truthy(tw.dividendRate) /\ price # 0) =>
                  embed.tw_yield =
                      Fixed2(RoundDiv(tw.dividendRate.v * 100 * Scale, price)) \o "%"
            /\ (~Truthy(tw.dividendRate) /\ Truthy(tw.dividendYield)) =>
                  embed.tw_yield =
                      Fixed2(RoundDiv(tw.dividendYield.v * 100 * Scale, FracScale)) \o "%"
            /\ (tw.dividendRate = None /\ tw.dividendYield = None) =>
                  embed.tw_yield # Fixed2(0) \o "%"

\* C6: with 10 or more aligned points and a column without variance, no NaN
\* reaches the report: the text is "insufficient data" and the number shown is
\* not "nan".
C6_NoNaNInReport ==
    (embed # None /\ Len(Aligned) >= MinPoints /\ Degenerate) =>
        /\ embed.corr_text = "insufficient data"
        /\ embed.correlation # "nan"

\* a calendar date, a fundamentals timestamp: what the estimator was given
CalendarDate == earnings_date["US"]
EarningsTimestamp == info["US"].earningsTimestamp
Resolved == pc \in {"roll", "yield"}
TimestampDates(ts) == {fromtimestamp(ts, off) : off \in UtcOffsets}

\* C7 as stated: a calendar date is used and the timestamp ignored; without it
\* any earnings timestamp the snapshot carries gives the date; with neither the
\* result is Unknown and nothing is rolled.
C7_SourcePriority_AnyTimestamp ==
    Resolved =>
        /\ CalendarDate # None => raw_date = Date(CalendarDate.ord)
        /\ (CalendarDate = None /\ EarningsTimestamp # None) =>
              raw_date \in TimestampDates(EarningsTimestamp.v)
        /\ (CalendarDate = None /\ EarningsTimestamp = None) =>
              (earnings_str = Unknown /\ pc = "yield" /\ estimated_next = 0)

\* C7: a calendar date is used and the timestamp ignored; without it a non-zero
\* earnings timestamp gives the date; with no calendar date and no timestamp, or
\* a timestamp of 0, the result is Unknown and nothing is rolled.
C7_SourcePriority ==
    Resolved =>
        /\ CalendarDate # None => raw_date = Date(CalendarDate.ord)
        /\ (CalendarDate = None /\ Truthy(EarningsTimestamp)) =>
              raw_date \in TimestampDates(EarningsTimestamp.v)
        /\ (CalendarDate = None /\ ~Truthy(EarningsTimestamp)) =>
              (raw_date = None /\ earnings_str = Unknown /\ pc = "yield"
                 /\ estimated_next = 0)

\* C7 witness: a calendar date was used although the snapshot carries a
\* timestamp of another day
C7_Witness ==
    /\ Resolved
    /\ CalendarDate # None
    /\ Truthy(EarningsTimestamp)
    /\ raw_date = Date(CalendarDate.ord)
    /\ raw_date \notin TimestampDates(EarningsTimestamp.v)

\* C8: a failure of the chart step does not abort the run; the report is still
\* composed and posted, without an image.
C8_ChartFailureDegrades ==
    chart = "failed" =>
        /\ pc # "aborted"
        /\ (pc = "done" /\ DISCORD_WEBHOOK_URL # "") => (embed # None /\ posts = 1)

\* C9: each fetched frame, its index as well as its closes, stays what the data
\* source returned.
C9_SeriesUnchanged ==
    \A t \in Tickers :
        /\ hist[t].index = fetched[t].index
        /\ hist[t].Close = fetched[t].Close

\* C10: the sink is called at most once; after any outcome the run has ended
\* with that single call; a finished run has posted once or printed the error
\* that kept it from posting, an aborted one ended in an exception.
C10_AtMostOnePost ==
    /\ posts <= 1
    /\ response # "none" => (posts = 1 /\ Terminated)
    /\ pc = "done" =>
          \/ (posts = 1 /\ embed # None)
          \/ (posts = 0 /\ log = "Error: Discord Webhook URL not found.")
    /\ pc = "aborted" => log \in {"exception in get_stock_data",
                                  "exception in generate_chart",
                                  "exception in send_discord_notification",
                                  "exception in requests.post"}

\* C10 witness: a rejected post ended the run, after one call
C10_Witness ==
    /\ pc = "done"
    /\ response = "429"
    /\ posts = 1

=============================================================================
